---- MODULE Spec2Model ----
(***************************************************************************)
(* A model of BitbucketClient (@sleavely/bitbucket): the paginated list    *)
(* methods, the repository-variable read-then-write conveniences, pull     *)
(* request creation, raw file retrieval and file commit/removal.           *)
(*                                                                         *)
(* Every `await` of a request is a scheduling point.  An action is what    *)
(* the method runs synchronously between two of them: it consumes the      *)
(* response of the request in flight (the remote API serves the request    *)
(* in the same step) and runs on to the next request or to the return.     *)
(***************************************************************************)
EXTENDS Integers, Sequences, FiniteSets, TLC

\* ---------------------------------------------------------------- bounds

\* The remote API serves at most this many pages to one paginated call.
MaxPages == 3
\* The repository holds at most this many pipeline variables initially.
MaxVars == 3
\* Page length of the variables listing (the API's default is 10; scaled).
PageLen == 2
\* The first page of effective default reviewers holds at most this many.
MaxReviewers == 3
\* A file path has at most this many '/'-separated segments.
MaxSegments == 3
\* A Location header has at most this many characters.
MaxLocation == 4

\* ------------------------------------------------------------- JS values

Undefined == [t |-> "undefined", n |-> 0]
NaN == [t |-> "NaN", n |-> 0]
Null == [t |-> "null", n |-> 0]
Num(n) == [t |-> "number", n |-> n]

\* `x ? a : b` and `if (x)` on a number or undefined: 0, NaN and undefined
\* are falsy.
Truthy(v) == v.t = "number" /\ v.n # 0

\* `x + 1`: undefined + 1 and NaN + 1 are NaN.
PlusOne(v) == IF v.t = "number" THEN Num(v.n + 1) ELSE NaN

\* ------------------------------------------------------ sequence helpers

RECURSIVE Flatten(_)
Flatten(ss) == IF ss = <<>> THEN <<>> ELSE Head(ss) \o Flatten(Tail(ss))

RECURSIVE SelectIndices(_, _, _)
SelectIndices(s, c, i) ==
  IF i > Len(s) THEN <<>>
  ELSE IF s[i].caller = c THEN <<i>> \o SelectIndices(s, c, i + 1)
  ELSE SelectIndices(s, c, i + 1)

SeqsUpTo(S, n) == UNION {[1..k -> S] : k \in 0..n}

Last(s) == s[Len(s)]

\* ------------------------------------------------------------- the calls

Callers == {"c1", "c2"}

PaginatedMethods == {"getRepositoriesByProject", "codeSearch"}
VariableMethods == {"setRepoVariable", "deleteRepoVariable"}
ReviewerMethods == {"getEffectiveDefaultReviewers", "createPullRequest"}
FileMethods == {"getFile"}
SrcMethods == {"commitFile", "removeFile"}

Methods ==
  PaginatedMethods \cup VariableMethods \cup ReviewerMethods
    \cup FileMethods \cup SrcMethods

\* What each caller runs: one caller calling one method, or two callers
\* calling setRepoVariable concurrently (the only methods that share
\* state, the repository's variables, are the variable methods).
Scenarios ==
  {[c \in Callers |-> IF c = "c1" THEN m ELSE "none"] : m \in Methods}
    \cup {[c \in Callers |-> "setRepoVariable"]}

\* ----------------------------------------------------------- the errors

NoError == [name |-> "none", hasResponse |-> FALSE, statusCode |-> 0]
\* got's HTTPError (a non-2xx response) and a RequestError without response.
HTTPError(status) ==
  [name |-> "HTTPError", hasResponse |-> TRUE, statusCode |-> status]
NetworkError ==
  [name |-> "RequestError", hasResponse |-> FALSE, statusCode |-> 0]

Pending == [state |-> "pending", value |-> <<>>, err |-> NoError]
Resolved(v) == [state |-> "resolved", value |-> v, err |-> NoError]
Rejected(e) == [state |-> "rejected", value |-> <<>>, err |-> e]

VARIABLES
  method,     \* method[c]: the method caller c runs ("none": no call)
  args,       \* args[c]: the arguments of c's call
  pc,         \* pc[c]: "idle", "await", "resume" or "done"
  frames,     \* frames[c]: `values` held by the suspended recursive calls
  requests,   \* every request issued, in order of issue
  responses,  \* responses[c]: the responses c has received, in order
  result,     \* result[c]: the settlement of the (innermost finished) call
  store       \* the repository's pipeline variables, in listing order

vars == <<method, args, pc, frames, requests, responses, result, store>>

\* The requests of caller c, in order of issue.
RequestsOf(c) ==
  [i \in 1..Len(SelectIndices(requests, c, 1)) |->
     requests[SelectIndices(requests, c, 1)[i]]]

\* Requests issued by c whose response has not arrived.
InFlight(c) == Len(RequestsOf(c)) - Len(responses[c])

Request(c, verb, path, page, uuid, body) ==
  [caller |-> c, verb |-> verb, path |-> path, page |-> page,
   uuid |-> uuid, body |-> body]

NoBody == [type |-> "none"]

\* ------------------------------------------------------------ pagination

PageValues == {<<>>, <<"a">>, <<"b">>}

PagePath(m) ==
  IF m = "getRepositoriesByProject"
  THEN "repositories/{workspace}?q=project.key"
  ELSE "workspaces/{workspace}/search/code?search_query&fields"

\* `${requestPage ? `&page=${requestPage}` : ''}` and
\* `if (requestPage) queryparams.append('page', ...)`: the page parameter
\* of the request, Undefined when the URL carries none.
PageParam(requestPage) ==
  IF Truthy(requestPage) THEN requestPage ELSE Undefined

PageRequest(c, m, requestPage) ==
  Request(c, "GET", PagePath(m), PageParam(requestPage), 0, NoBody)

\* Mutant: the next page is fetched whether or not `next` is there.
MutHasNextAlways(res) == TRUE

\* `if (next)`.
HasNext(res) == res.next

\* `currentPage + 1`.
NextRequestPage(currentPage) == PlusOne(currentPage)

\* Mutant: the following pages are put before the current page.
MutAggregateReversed(values, rest) == rest \o values

\* `[...values, ...await this.getRepositoriesByProject(...)]`.
Aggregate(values, rest) == values \o rest

\* Mutant: a failed page is swallowed and the pages held so far returned.
MutOnPageErrorPartial(held, err) == Resolved(Flatten(held))

\* A rejected request rejects the call that awaits it.
OnPageError(held, err) == Rejected(err)

OkPage(values, next, page) ==
  [ok |-> TRUE, values |-> values, next |-> next, page |-> page,
   err |-> NoError]
Failure(e) ==
  [ok |-> FALSE, values |-> <<>>, next |-> FALSE, page |-> Undefined,
   err |-> e]

PageErrors == {HTTPError(500), NetworkError}

\* The page number an API that honours the page parameter reports.
HonestPage(req) == IF req.page.t = "number" THEN req.page ELSE Num(1)

\* `page` is optional in the envelope, and the client does not check it.
ReportedPages(req) == {HonestPage(req), Undefined, Num(-1), Num(0)}

\* What the remote API may answer to the k-th request of a call.
PageResponses(req, k) ==
  {OkPage(v, n, p) :
     v \in PageValues, n \in {b \in BOOLEAN : b => k < MaxPages},
     p \in ReportedPages(req)}
    \cup {Failure(e) : e \in PageErrors}

\* The optional third argument of the paginated methods.
InitialRequestPages == {Undefined, Num(2)}

CallPaginated(c) ==
  /\ pc[c] = "idle"
  /\ method[c] \in PaginatedMethods
  /\ \E rp \in InitialRequestPages :
       /\ args' = [args EXCEPT ![c] = [requestPage |-> rp]]
       /\ requests' = Append(requests, PageRequest(c, method[c], rp))
  /\ pc' = [pc EXCEPT ![c] = "await"]
  /\ UNCHANGED <<method, frames, responses, result, store>>

\* The response of the page request in flight arrives.
OnPageResponse(c) ==
  /\ pc[c] = "await"
  /\ method[c] \in PaginatedMethods
  /\ \E res \in PageResponses(Last(RequestsOf(c)), Len(RequestsOf(c))) :
       /\ responses' = [responses EXCEPT ![c] = Append(@, res)]
       /\ IF ~res.ok
          THEN /\ result' =
                    [result EXCEPT ![c] = OnPageError(frames[c], res.err)]
               /\ pc' = [pc EXCEPT ![c] =
                           IF frames[c] = <<>> THEN "done" ELSE "resume"]
               /\ UNCHANGED <<frames, requests>>
          ELSE IF HasNext(res)
          THEN /\ frames' = [frames EXCEPT ![c] = Append(@, res.values)]
               /\ requests' =
                    Append(requests,
                           PageRequest(c, method[c], NextRequestPage(res.page)))
               /\ UNCHANGED <<pc, result>>
          ELSE /\ result' = [result EXCEPT ![c] = Resolved(res.values)]
               /\ pc' = [pc EXCEPT ![c] =
                           IF frames[c] = <<>> THEN "done" ELSE "resume"]
               /\ UNCHANGED <<frames, requests>>
  /\ UNCHANGED <<method, args, store>>

\* The innermost suspended call resumes with the settlement of the call it
\* awaits, and settles itself.
PageResume(c) ==
  /\ pc[c] = "resume"
  /\ method[c] \in PaginatedMethods
  /\ frames[c] # <<>>
  /\ frames' = [frames EXCEPT ![c] = SubSeq(@, 1, Len(@) - 1)]
  /\ result' = [result EXCEPT ![c] =
                  IF @.state = "resolved"
                  THEN Resolved(Aggregate(Last(frames[c]), @.value))
                  ELSE @]
  /\ pc' = [pc EXCEPT ![c] = IF Len(frames[c]) = 1 THEN "done" ELSE "resume"]
  /\ UNCHANGED <<method, args, requests, responses, store>>

\* -------------------------------------------------- repository variables

Keys == {"X", "Y", "Z"}
\* The keys the callers set or delete.
VarNames == {"X", "Y"}
\* The value each caller writes.
VarValue(c) == IF c = "c1" THEN "v1" ELSE "v2"

Variable(uuid, key, value) ==
  [uuid |-> uuid, key |-> key, value |-> value, secured |-> TRUE]
\* `find` found nothing.
NoVariable == [uuid |-> 0, key |-> "", value |-> "", secured |-> FALSE]

Injective(s) == \A i, j \in 1..Len(s) : s[i] = s[j] => i = j

\* The repository before the calls: distinct keys, uuids 1, 2, ...
InitialStores ==
  {[i \in 1..Len(ks) |-> Variable(i, ks[i], "v0")] :
     ks \in {s \in SeqsUpTo(Keys, MaxVars) : Injective(s)}}

VariablesPath == "repositories/{workspace}/{repo_slug}/pipelines_config/variables"

Min(a, b) == IF a < b THEN a ELSE b

\* GET .../pipelines_config/variables answers with the first page of the
\* variables, and with `next` when there are more.
ListVariables(vs) ==
  OkPage(SubSeq(vs, 1, Min(PageLen, Len(vs))), Len(vs) > PageLen, Num(1))

\* getRepoVariables: `const { values } = await ...; return values`.
getRepoVariables(res) == res.values

\* Mutant: the first variable is taken whatever its key.
MutFindFirst(repoVars, varName) ==
  IF repoVars = <<>> THEN NoVariable ELSE repoVars[1]

RECURSIVE FindFrom(_, _, _)
FindFrom(vs, key, i) ==
  IF i > Len(vs) THEN NoVariable
  ELSE IF vs[i].key = key THEN vs[i]
  ELSE FindFrom(vs, key, i + 1)

\* `repoVars.find(({ key }) => key === varName)`.
FindByKey(repoVars, varName) == FindFrom(repoVars, varName, 1)

\* createRepoVariable's request.
CreateRequest(c, varName, varValue) ==
  Request(c, "POST", VariablesPath, Undefined, 0,
          [type |-> "pipeline_variable", key |-> varName,
           value |-> varValue, secured |-> TRUE])

\* updateRepoVariable's request.
UpdateRequest(c, varUuid, varName, varValue) ==
  Request(c, "PUT", VariablesPath, Undefined, varUuid,
          [type |-> "pipeline_variable", uuid |-> varUuid, key |-> varName,
           value |-> varValue, secured |-> TRUE])

DeleteRequest(c, varUuid) ==
  Request(c, "DELETE", VariablesPath, Undefined, varUuid, NoBody)

\* Mutant: a variable that was found is created again.
MutSetRequestCreate(c, repoVars, varName, varValue) ==
  CreateRequest(c, varName, varValue)

\* setRepoVariable after the listing: create if absent, else update.
SetRequest(c, repoVars, varName, varValue) ==
  IF FindByKey(repoVars, varName) = NoVariable
  THEN CreateRequest(c, varName, varValue)
  ELSE UpdateRequest(c, FindByKey(repoVars, varName).uuid, varName, varValue)

HasUuid(vs, uuid) == \E i \in 1..Len(vs) : vs[i].uuid = uuid
HasKey(vs, key) == \E i \in 1..Len(vs) : vs[i].key = key

RECURSIVE MaxUuid(_)
MaxUuid(vs) ==
  IF vs = <<>> THEN 0
  ELSE IF Head(vs).uuid > MaxUuid(Tail(vs)) THEN Head(vs).uuid
  ELSE MaxUuid(Tail(vs))

RECURSIVE Without(_, _)
Without(vs, uuid) ==
  IF vs = <<>> THEN <<>>
  ELSE IF Head(vs).uuid = uuid THEN Without(Tail(vs), uuid)
  ELSE <<Head(vs)>> \o Without(Tail(vs), uuid)

WriteOk(v) == [ok |-> TRUE, variable |-> v, err |-> NoError]
WriteFailure(e) == [ok |-> FALSE, variable |-> NoVariable, err |-> e]

\* The remote API serving a write: the pairs <<response, variables after>>.
\* A POST of a key that exists is refused (409) or stored as a duplicate.
ServeWrite(vs, req) ==
  {<<WriteFailure(HTTPError(500)), vs>>}
    \cup
  IF req.verb = "POST"
  THEN LET v == Variable(MaxUuid(vs) + 1, req.body.key, req.body.value)
       IN  {<<WriteOk(v), Append(vs, v)>>}
             \cup IF HasKey(vs, req.body.key)
                  THEN {<<WriteFailure(HTTPError(409)), vs>>}
                  ELSE {}
  ELSE IF ~HasUuid(vs, req.uuid)
  THEN {<<WriteFailure(HTTPError(404)), vs>>}
  ELSE IF req.verb = "PUT"
  THEN LET v == Variable(req.uuid, req.body.key, req.body.value)
       IN  {<<WriteOk(v),
              [i \in 1..Len(vs) |-> IF vs[i].uuid = req.uuid THEN v ELSE vs[i]]>>}
  ELSE {<<WriteOk(NoVariable), Without(vs, req.uuid)>>}

ListErrors == {HTTPError(500)}

\* setRepoVariable / deleteRepoVariable up to the await of the listing.
CallVariable(c) ==
  /\ pc[c] = "idle"
  /\ method[c] \in VariableMethods
  /\ \E varName \in VarNames :
       args' = [args EXCEPT ![c] =
                  [varName |-> varName, varValue |-> VarValue(c)]]
  /\ requests' =
       Append(requests, Request(c, "GET", VariablesPath, Undefined, 0, NoBody))
  /\ pc' = [pc EXCEPT ![c] = "await"]
  /\ UNCHANGED <<method, frames, responses, result, store>>

\* The listing arrives: find the key, then create, update, delete or return.
OnVariablesListed(c) ==
  /\ pc[c] = "await"
  /\ method[c] \in VariableMethods
  /\ responses[c] = <<>>
  /\ \E res \in {ListVariables(store)} \cup {Failure(e) : e \in ListErrors} :
       /\ responses' = [responses EXCEPT ![c] = Append(@, res)]
       /\ IF ~res.ok
          THEN /\ result' = [result EXCEPT ![c] = Rejected(res.err)]
               /\ pc' = [pc EXCEPT ![c] = "done"]
               /\ UNCHANGED requests
          ELSE IF method[c] = "setRepoVariable"
          THEN /\ requests' =
                    Append(requests,
                           SetRequest(c, getRepoVariables(res),
                                      args[c].varName, args[c].varValue))
               /\ UNCHANGED <<pc, result>>
          ELSE IF FindByKey(getRepoVariables(res), args[c].varName) = NoVariable
          THEN /\ result' = [result EXCEPT ![c] = Resolved(Null)]
               /\ pc' = [pc EXCEPT ![c] = "done"]
               /\ UNCHANGED requests
          ELSE /\ requests' =
                    Append(requests,
                           DeleteRequest(c,
                             FindByKey(getRepoVariables(res), args[c].varName).uuid))
               /\ UNCHANGED <<pc, result>>
  /\ UNCHANGED <<method, args, frames, store>>

\* The response of the POST, PUT or DELETE arrives.
OnVariableWritten(c) ==
  /\ pc[c] = "await"
  /\ method[c] \in VariableMethods
  /\ Len(responses[c]) = 1
  /\ \E out \in ServeWrite(store, Last(RequestsOf(c))) :
       /\ responses' = [responses EXCEPT ![c] = Append(@, out[1])]
       /\ store' = out[2]
       /\ result' = [result EXCEPT ![c] =
                       IF out[1].ok THEN Resolved(out[1].variable)
                       ELSE Rejected(out[1].err)]
  /\ pc' = [pc EXCEPT ![c] = "done"]
  /\ UNCHANGED <<method, args, frames, requests>>

\* ------------------------------------------- reviewers and pull requests

Str(s) == [t |-> "string", s |-> s]

\* `x ? a : b` on an optional string: undefined and '' are falsy.
TruthyString(v) == v.t = "string" /\ v.s # ""

Uuids == {"A", "B", "ME"}
ReviewerTypes == {"repository", "project"}

Account(uuid) == [uuid |-> uuid, display_name |-> uuid]

\* IDefaultReviewerAndType, an entry of the effective-default-reviewers page.
ReviewerAndType(uuid, rt) ==
  [type |-> "default_reviewer_and_type", reviewer_type |-> rt,
   user |-> Account(uuid)]

ReviewerPages ==
  SeqsUpTo({ReviewerAndType(u, rt) : u \in Uuids, rt \in ReviewerTypes},
           MaxReviewers)

ReviewersPath == "repositories/{workspace}/{repo_slug}/effective-default-reviewers"
PullRequestsPath == "repositories/{workspace}/{repo_slug}/pullrequests"

\* Mutant: the entry's `type` is taken for its `reviewer_type`.
MutReshapeReviewerType(e) ==
  [uuid |-> e.user.uuid, display_name |-> e.user.display_name,
   reviewer_type |-> e.type]

\* `({ user, reviewer_type }) => ({ ...user, reviewer_type })`.
ReshapeReviewer(e) ==
  [uuid |-> e.user.uuid, display_name |-> e.user.display_name,
   reviewer_type |-> e.reviewer_type]

\* getEffectiveDefaultReviewers after its only await: `values.map(...)`;
\* `next` is not read.
getEffectiveDefaultReviewers(res) ==
  [i \in 1..Len(res.values) |-> ReshapeReviewer(res.values[i])]

RECURSIVE Filter(_, _)
Filter(rs, uuid) ==
  IF rs = <<>> THEN <<>>
  ELSE IF uuid # Head(rs).uuid THEN <<Head(rs)>> \o Filter(Tail(rs), uuid)
  ELSE Filter(Tail(rs), uuid)

\* Mutant: the author stays among the reviewers.
MutExcludeNobody(reviewers, currentUser) == reviewers

\* `.filter((reviewer) => currentUser.uuid !== reviewer.uuid)`.
ExcludeAuthor(reviewers, currentUser) == Filter(reviewers, currentUser.uuid)

\* `destinationBranch ? { branch: { name: destinationBranch } } : undefined`.
Destination(destinationBranch) ==
  IF TruthyString(destinationBranch)
  THEN [t |-> "object", branch |-> destinationBranch.s]
  ELSE Undefined

\* The `json` option serialises the body: JSON.stringify leaves out a key
\* whose value is undefined.
PullRequestBody(title, sourceBranch, destination, reviewers) ==
  IF destination = Undefined
  THEN [title |-> title, source |-> sourceBranch, reviewers |-> reviewers,
        close_source_branch |-> TRUE]
  ELSE [title |-> title, source |-> sourceBranch,
        destination |-> destination.branch, reviewers |-> reviewers,
        close_source_branch |-> TRUE]

DestinationBranches == {Undefined, Str(""), Str("main")}
CurrentUsers == {Account("ME"), Account("A")}

UserOk(u) == [ok |-> TRUE, user |-> u, err |-> NoError]
PullRequestOk == [ok |-> TRUE, id |-> 1, err |-> NoError]

RemoteErrors == {HTTPError(500)}

\* Mutant: the user and the reviewers are requested together
\* (`Promise.all`), not one after the other.
MutBeforeFirstAwaitFanOut(c) ==
  <<Request(c, "GET", "user", Undefined, 0, NoBody),
    Request(c, "GET", ReviewersPath, Undefined, 0, NoBody)>>

\* What createPullRequest issues before it first suspends:
\* `const currentUser = await this.getCurrentUser()`.
BeforeFirstAwait(c) == <<Request(c, "GET", "user", Undefined, 0, NoBody)>>

\* getEffectiveDefaultReviewers, or createPullRequest up to the await in
\* getCurrentUser.
CallReviewers(c) ==
  /\ pc[c] = "idle"
  /\ method[c] \in ReviewerMethods
  /\ IF method[c] = "createPullRequest"
     THEN /\ \E d \in DestinationBranches :
               args' = [args EXCEPT ![c] =
                          [title |-> "title", sourceBranch |-> "feature",
                           destinationBranch |-> d]]
          /\ requests' = requests \o BeforeFirstAwait(c)
     ELSE /\ requests' =
               Append(requests,
                      Request(c, "GET", ReviewersPath, Undefined, 0, NoBody))
          /\ UNCHANGED args
  /\ pc' = [pc EXCEPT ![c] = "await"]
  /\ UNCHANGED <<method, frames, responses, result, store>>

\* createPullRequest: the current user arrives; getEffectiveDefaultReviewers
\* is called.
OnCurrentUser(c) ==
  /\ pc[c] = "await"
  /\ method[c] = "createPullRequest"
  /\ responses[c] = <<>>
  /\ \E res \in {UserOk(u) : u \in CurrentUsers}
                  \cup {Failure(e) : e \in RemoteErrors} :
       /\ responses' = [responses EXCEPT ![c] = Append(@, res)]
       /\ IF ~res.ok
          THEN /\ result' = [result EXCEPT ![c] = Rejected(res.err)]
               /\ pc' = [pc EXCEPT ![c] = "done"]
               /\ UNCHANGED requests
          ELSE /\ requests' =
                    Append(requests,
                           Request(c, "GET", ReviewersPath, Undefined, 0, NoBody))
               /\ UNCHANGED <<pc, result>>
  /\ UNCHANGED <<method, args, frames, store>>

\* The effective-default-reviewers page arrives.  getEffectiveDefaultReviewers
\* returns; createPullRequest filters and posts the pull request.
OnReviewers(c) ==
  /\ pc[c] = "await"
  /\ \/ method[c] = "getEffectiveDefaultReviewers" /\ responses[c] = <<>>
     \/ method[c] = "createPullRequest" /\ Len(responses[c]) = 1
  /\ \E res \in {OkPage(v, n, Num(1)) : v \in ReviewerPages, n \in BOOLEAN}
                  \cup {Failure(e) : e \in RemoteErrors} :
       /\ responses' = [responses EXCEPT ![c] = Append(@, res)]
       /\ IF ~res.ok
          THEN /\ result' = [result EXCEPT ![c] = Rejected(res.err)]
               /\ pc' = [pc EXCEPT ![c] = "done"]
               /\ UNCHANGED requests
          ELSE IF method[c] = "getEffectiveDefaultReviewers"
          THEN /\ result' = [result EXCEPT ![c] =
                               Resolved(getEffectiveDefaultReviewers(res))]
               /\ pc' = [pc EXCEPT ![c] = "done"]
               /\ UNCHANGED requests
          ELSE /\ requests' =
                    Append(requests,
                      Request(c, "POST", PullRequestsPath, Undefined, 0,
                        PullRequestBody(
                          args[c].title, args[c].sourceBranch,
                          Destination(args[c].destinationBranch),
                          ExcludeAuthor(getEffectiveDefaultReviewers(res),
                                        responses[c][1].user))))
               /\ UNCHANGED <<pc, result>>
  /\ UNCHANGED <<method, args, frames, store>>

\* createPullRequest: the response of the POST arrives.
OnPullRequestCreated(c) ==
  /\ pc[c] = "await"
  /\ method[c] = "createPullRequest"
  /\ Len(responses[c]) = 2
  /\ \E res \in {PullRequestOk} \cup {Failure(e) : e \in RemoteErrors} :
       /\ responses' = [responses EXCEPT ![c] = Append(@, res)]
       /\ result' = [result EXCEPT ![c] =
                       IF res.ok THEN Resolved(res) ELSE Rejected(res.err)]
  /\ pc' = [pc EXCEPT ![c] = "done"]
  /\ UNCHANGED <<method, args, frames, requests, store>>

\* ------------------------------------------------------------------ files

Segments == {"src", "..", ".", ""}
FilePaths == SeqsUpTo(Segments, MaxSegments)

\* `posix.resolve('/', filePath)`, a path as its '/'-separated segments:
\* '' and '.' are dropped, '..' drops the segment before it (none at the
\* root).
RECURSIVE Normalize(_, _)
Normalize(done, rest) ==
  IF rest = <<>> THEN done
  ELSE IF Head(rest) \in {"", "."} THEN Normalize(done, Tail(rest))
  ELSE IF Head(rest) = ".."
  THEN Normalize(IF done = <<>> THEN <<>> ELSE SubSeq(done, 1, Len(done) - 1),
                 Tail(rest))
  ELSE Normalize(Append(done, Head(rest)), Tail(rest))

PosixResolve(filePath) == Normalize(<<>>, filePath)

FilePath == "repositories/{workspace}/{repo_slug}/src/{commitOrRef}"

\* Mutant: every error that carries a response counts as not found.
MutIsNotFoundAnyStatus(err) == err.hasResponse

\* `err.response && err.response.statusCode === 404`.
IsNotFound(err) == err.hasResponse /\ err.statusCode = 404

\* `.then(res => res.body).catch(...)`.
FileResult(res) ==
  IF res.ok THEN Resolved(Str(res.body))
  ELSE IF IsNotFound(res.err) THEN Resolved(Null)
  ELSE Rejected(res.err)

FileOk(body) == [ok |-> TRUE, body |-> body, err |-> NoError]
FileErrors == {HTTPError(s) : s \in {401, 403, 404, 500}} \cup {NetworkError}
FileResponses ==
  {FileOk(b) : b \in {"", "text"}} \cup {Failure(e) : e \in FileErrors}

CallGetFile(c) ==
  /\ pc[c] = "idle"
  /\ method[c] = "getFile"
  /\ \E filePath \in FilePaths :
       /\ args' = [args EXCEPT ![c] = [filePath |-> filePath]]
       /\ requests' =
            Append(requests,
                   [caller |-> c, verb |-> "GET", path |-> FilePath,
                    page |-> Undefined, uuid |-> 0, body |-> NoBody,
                    file |-> PosixResolve(filePath), responseType |-> "text"])
  /\ pc' = [pc EXCEPT ![c] = "await"]
  /\ UNCHANGED <<method, frames, responses, result, store>>

OnFile(c) ==
  /\ pc[c] = "await"
  /\ method[c] = "getFile"
  /\ \E res \in FileResponses :
       /\ responses' = [responses EXCEPT ![c] = Append(@, res)]
       /\ result' = [result EXCEPT ![c] = FileResult(res)]
  /\ pc' = [pc EXCEPT ![c] = "done"]
  /\ UNCHANGED <<method, args, frames, requests, store>>

\* ------------------------------------------------- commitFile, removeFile

\* A string as the sequence of its characters.
Chars == {"/", "a", "1"}
Locations == SeqsUpTo(Chars, MaxLocation)
Unknown == <<"<", "u", "n", "k", "n", "o", "w", "n", ">">>

\* `s.split('/')`: the pieces between the separators; '' gives [''].
RECURSIVE SplitFrom(_, _)
SplitFrom(piece, rest) ==
  IF rest = <<>> THEN <<piece>>
  ELSE IF Head(rest) = "/" THEN <<piece>> \o SplitFrom(<<>>, Tail(rest))
  ELSE SplitFrom(Append(piece, Head(rest)), Tail(rest))

Split(s) == SplitFrom(<<>>, s)

\* Mutant: `||` for `??`, an empty last segment falls back too.
MutCommitHashOr(location) ==
  IF location = Undefined \/ Last(Split(location.s)) = <<>>
  THEN Unknown ELSE Last(Split(location.s))

\* `res.headers?.location?.split('/')?.at(-1) ?? '<unknown>'`; a header
\* that is absent is Undefined.
CommitHash(location) ==
  IF location = Undefined THEN Unknown ELSE Last(Split(location.s))

DefaultMessage(m) ==
  IF m = "commitFile" THEN "Posted a file via API" ELSE "Removed a file via API"

Optional(name, v) == IF TruthyString(v) THEN <<<<name, v.s>>>> ELSE <<>>

\* The multipart form of commitFile and removeFile; a message that is not
\* given takes the default.
Form(m, filePath, contents, message, author, branch) ==
  (IF m = "commitFile" THEN <<<<filePath, contents>>>>
   ELSE <<<<"files", filePath>>>>)
    \o Optional("message", IF message = Undefined
                           THEN Str(DefaultMessage(m)) ELSE message)
    \o Optional("author", author)
    \o Optional("branch", branch)

SrcPath == "repositories/{workspace}/{repo_slug}/src"

SrcOk(location) == [ok |-> TRUE, location |-> location, err |-> NoError]
SrcResponses ==
  {SrcOk(l) : l \in {Str(s) : s \in Locations} \cup {Undefined}}
    \cup {Failure(e) : e \in RemoteErrors}

CallSrc(c) ==
  /\ pc[c] = "idle"
  /\ method[c] \in SrcMethods
  /\ \E message \in {Undefined, Str(""), Str("msg")},
        author \in {Undefined, Str("me")}, branch \in {Undefined, Str("dev")} :
       /\ args' = [args EXCEPT ![c] =
                     [filePath |-> "README.md", contents |-> "text",
                      message |-> message, author |-> author,
                      branch |-> branch]]
       /\ requests' =
            Append(requests,
                   Request(c, "POST", SrcPath, Undefined, 0,
                           Form(method[c], "README.md", "text",
                                message, author, branch)))
  /\ pc' = [pc EXCEPT ![c] = "await"]
  /\ UNCHANGED <<method, frames, responses, result, store>>

OnSrc(c) ==
  /\ pc[c] = "await"
  /\ method[c] \in SrcMethods
  /\ \E res \in SrcResponses :
       /\ responses' = [responses EXCEPT ![c] = Append(@, res)]
       /\ result' = [result EXCEPT ![c] =
                       IF res.ok THEN Resolved(CommitHash(res.location))
                       ELSE Rejected(res.err)]
  /\ pc' = [pc EXCEPT ![c] = "done"]
  /\ UNCHANGED <<method, args, frames, requests, store>>

\* ------------------------------------------------------ the specification

Init ==
  /\ method \in Scenarios
  /\ args = [c \in Callers |-> <<>>]
  /\ pc = [c \in Callers |-> "idle"]
  /\ frames = [c \in Callers |-> <<>>]
  /\ requests = <<>>
  /\ responses = [c \in Callers |-> <<>>]
  /\ result = [c \in Callers |-> Pending]
  /\ store \in IF \E c \in Callers : method[c] \in VariableMethods
                THEN InitialStores ELSE {<<>>}

Next ==
  \E c \in Callers :
    \/ CallPaginated(c)
    \/ OnPageResponse(c)
    \/ PageResume(c)
    \/ CallVariable(c)
    \/ OnVariablesListed(c)
    \/ OnVariableWritten(c)
    \/ CallReviewers(c)
    \/ OnCurrentUser(c)
    \/ OnReviewers(c)
    \/ OnPullRequestCreated(c)
    \/ CallGetFile(c)
    \/ OnFile(c)
    \/ CallSrc(c)
    \/ OnSrc(c)

Spec == Init /\ [][Next]_vars

\* The event loop runs a continuation whose awaited promise has settled.
FairSpec == Spec /\ \A c \in Callers : WF_vars(PageResume(c))


\* ---------------------------------------------------------- the claims

Done(c) == pc[c] = "done"

\* c is the only caller of its run.
Alone(c) == \A d \in Callers \ {c} : method[d] = "none"

PagesOf(c) == [k \in 1..Len(responses[c]) |-> responses[c][k].values]

\* Every page of c's call reports the page number that was asked for.
HonestPages(c) ==
  \A k \in 1..Len(responses[c]) :
    responses[c][k].ok =>
      responses[c][k].page = HonestPage(RequestsOf(c)[k])

\* C1: a paginated call that resolves was served N >= 1 pages, all but the
\* last with `next`; it issued exactly N requests, returns the pages'
\* values concatenated in page order, asked for the first page without a
\* page parameter and, of a server that numbers its pages 1..N, for the
\* k-th page with page=k, the previous response's page plus one.
C1_Aggregation ==
  \A c \in Callers :
    (method[c] \in PaginatedMethods /\ Done(c) /\ result[c].state = "resolved")
      => LET N == Len(responses[c])
             reqs == RequestsOf(c)
         IN  /\ N >= 1
             /\ Len(reqs) = N
             /\ \A k \in 1..N :
                  responses[c][k].ok /\ (responses[c][k].next <=> k < N)
             /\ result[c].value = Flatten(PagesOf(c))
             /\ args[c].requestPage = Undefined => reqs[1].page = Undefined
             /\ (args[c].requestPage = Undefined /\ HonestPages(c))
                  => \A k \in 2..N :
                       /\ reqs[k].page = Num(k)
                       /\ reqs[k].page.n = responses[c][k - 1].page.n + 1

C1_Witness ==
  /\ method["c1"] = "getRepositoriesByProject"
  /\ Done("c1")
  /\ args["c1"].requestPage = Undefined
  /\ Len(responses["c1"]) = 3
  /\ HonestPages("c1")
  /\ PagesOf("c1") = <<(<<"a">>), (<<"b">>), (<<"b">>)>>
  /\ result["c1"] = Resolved(<<"a", "b", "b">>)

\* C2: once the first response of a paginated call has arrived without
\* `next`, the call has resolved to that response's values and has issued
\* one request, and issues no other.
C2_SinglePage ==
  \A c \in Callers :
    (/\ method[c] \in PaginatedMethods
     /\ responses[c] # <<>>
     /\ responses[c][1].ok
     /\ ~responses[c][1].next)
      => /\ Len(RequestsOf(c)) = 1
         /\ Done(c)
         /\ result[c] = Resolved(responses[c][1].values)

C2_Witness ==
  /\ method["c1"] = "codeSearch"
  /\ Done("c1")
  /\ Len(RequestsOf("c1")) = 1
  /\ responses["c1"] = <<OkPage(<<"a">>, FALSE, Num(1))>>
  /\ result["c1"] = Resolved(<<"a">>)

\* C9: once the request for some page k of a paginated call has failed, no
\* further request is issued, and the call (each suspended call in turn)
\* rejects with that error: the values of pages 1..k-1 are not returned.
C9_NoPartialResult ==
  \A c \in Callers :
    \A k \in 1..Len(responses[c]) :
      (method[c] \in PaginatedMethods /\ ~responses[c][k].ok)
        => /\ k = Len(responses[c])
           /\ Len(RequestsOf(c)) = k
           /\ pc[c] \in {"resume", "done"}
           /\ result[c] = Rejected(responses[c][k].err)
           /\ result[c].value = <<>>

C9_Witness ==
  /\ method["c1"] = "getRepositoriesByProject"
  /\ Done("c1")
  /\ Len(responses["c1"]) = 3
  /\ responses["c1"][1].values = <<"a">>
  /\ responses["c1"][2].values = <<"b">>
  /\ responses["c1"][3] = Failure(HTTPError(500))
  /\ Len(RequestsOf("c1")) = 3
  /\ result["c1"] = Rejected(HTTPError(500))

\* C3 as stated: when the effective-default-reviewers endpoint answers
\* with `next`, getEffectiveDefaultReviewers fetches the following page.
C3_ReviewersPaginated ==
  \A c \in Callers :
    (/\ method[c] = "getEffectiveDefaultReviewers"
     /\ Done(c)
     /\ responses[c][1].ok
     /\ responses[c][1].next)
      => Len(RequestsOf(c)) >= 2

\* C3, amended: getEffectiveDefaultReviewers issues one request, without a
\* page parameter, and returns the reviewers of the first page only, each
\* user with its reviewer_type, in the page's order, whether or not the
\* response carries `next`.
C3_ReviewersFirstPageOnly ==
  \A c \in Callers :
    (method[c] = "getEffectiveDefaultReviewers" /\ Done(c))
      => LET res == responses[c][1]
         IN  /\ RequestsOf(c) =
                  <<Request(c, "GET", ReviewersPath, Undefined, 0, NoBody)>>
             /\ Len(responses[c]) = 1
             /\ res.ok =>
                  /\ result[c].state = "resolved"
                  /\ Len(result[c].value) = Len(res.values)
                  /\ \A i \in 1..Len(res.values) :
                       /\ result[c].value[i].uuid = res.values[i].user.uuid
                       /\ result[c].value[i].reviewer_type =
                            res.values[i].reviewer_type

C3_Witness ==
  /\ method["c1"] = "getEffectiveDefaultReviewers"
  /\ Done("c1")
  /\ responses["c1"][1].ok
  /\ responses["c1"][1].next
  /\ Len(responses["c1"][1].values) = 2
  /\ Len(RequestsOf("c1")) = 1
  /\ Len(result["c1"].value) = 2
  /\ result["c1"].value[1].uuid = "A"
  /\ result["c1"].value[2].uuid = "B"

\* C4 as stated: a single call of setRepoVariable whose listing succeeded
\* issues exactly one write: a PUT to the uuid of the repository's variable
\* with that key if the repository has one, a POST if it has none.
C4_SetOrCreate ==
  \A c \in Callers :
    (/\ method[c] = "setRepoVariable"
     /\ Alone(c)
     /\ Len(responses[c]) >= 1
     /\ responses[c][1].ok)
      => /\ Len(RequestsOf(c)) = 2
         /\ pc[c] = "await" =>
              LET w == RequestsOf(c)[2]
              IN  IF HasKey(store, args[c].varName)
                  THEN /\ w.verb = "PUT"
                       /\ w.uuid = FindByKey(store, args[c].varName).uuid
                  ELSE w.verb = "POST"

\* What setRepoVariable does do (C4): the single write of a call follows the
\* first page of the listing, so the call is a set-or-create whenever the
\* repository's variables fit on one page.
C4_SetOrCreateOnFirstPage ==
  \A c \in Callers :
    (/\ method[c] = "setRepoVariable"
     /\ Alone(c)
     /\ Len(responses[c]) >= 1
     /\ responses[c][1].ok)
      => /\ Len(RequestsOf(c)) = 2
         /\ LET w == RequestsOf(c)[2]
                page == responses[c][1].values
            IN  /\ IF HasKey(page, args[c].varName)
                   THEN /\ w.verb = "PUT"
                        /\ w.uuid = FindFrom(page, args[c].varName, 1).uuid
                   ELSE w.verb = "POST"
                /\ (pc[c] = "await" /\ ~responses[c][1].next)
                     => page = store

\* C5: the listing of a deleteRepoVariable call arrives and no variable of
\* the repository has the key: the call resolves to null in that step, and
\* the listing GET stays its only request.
C5_DeleteMissing ==
  [][\A c \in Callers :
       (/\ method[c] = "deleteRepoVariable"
        /\ responses[c] = <<>>
        /\ responses'[c] # <<>>
        /\ responses'[c][1].ok
        /\ ~HasKey(store, args[c].varName))
         => /\ pc'[c] = "done"
            /\ result'[c] = Resolved(Null)
            /\ requests' = requests
            /\ requests =
                 <<Request(c, "GET", VariablesPath, Undefined, 0, NoBody)>>
            /\ store' = store]_vars

C5_Witness ==
  /\ method["c1"] = "deleteRepoVariable"
  /\ Done("c1")
  /\ args["c1"].varName = "X"
  /\ Len(store) = 2
  /\ ~HasKey(store, "X")
  /\ responses["c1"][1].ok
  /\ Len(requests) = 1
  /\ requests[1].verb = "GET"
  /\ result["c1"] = Resolved(Null)

\* C6: getFile resolves to null exactly when the request failed with a 404
\* response; any other failure, with another status or with no response,
\* rejects with that error; a success resolves to the body text.
C6_GetFile ==
  \A c \in Callers :
    (method[c] = "getFile" /\ Done(c))
      => LET res == responses[c][1]
         IN  /\ result[c] = Resolved(Null)
                  <=> (/\ ~res.ok
                       /\ res.err.hasResponse
                       /\ res.err.statusCode = 404)
             /\ (~res.ok /\ ~(res.err.hasResponse /\ res.err.statusCode = 404))
                  => result[c] = Rejected(res.err)
             /\ res.ok => result[c] = Resolved(Str(res.body))

C6_Witness ==
  /\ method["c1"] = "getFile"
  /\ Done("c1")
  /\ responses["c1"] = <<Failure(HTTPError(404))>>
  /\ result["c1"] = Resolved(Null)
  /\ requests[1].file = <<"src">>
  /\ args["c1"].filePath = <<"..", "src", ".">>

UuidsAndTypes(rs) == [i \in 1..Len(rs) |-> <<rs[i].uuid, rs[i].reviewer_type>>]

\* C7: the pull request createPullRequest posts carries the reviewers that
\* getEffectiveDefaultReviewers returned, without every entry that has the
\* current user's uuid and with the others in their order; it carries
\* close_source_branch = true, and a destination only if destinationBranch
\* is given (and then that branch).
C7_PullRequest ==
  \A c \in Callers :
    (method[c] = "createPullRequest" /\ Len(RequestsOf(c)) = 3)
      => LET pr == RequestsOf(c)[3]
             me == responses[c][1].user.uuid
             effective ==
               [i \in 1..Len(responses[c][2].values) |->
                  <<responses[c][2].values[i].user.uuid,
                    responses[c][2].values[i].reviewer_type>>]
         IN  /\ pr.verb = "POST"
             /\ pr.path = PullRequestsPath
             /\ UuidsAndTypes(pr.body.reviewers) =
                  SelectSeq(effective, LAMBDA r : r[1] # me)
             /\ pr.body.close_source_branch = TRUE
             /\ "destination" \in DOMAIN pr.body
                  => /\ args[c].destinationBranch.t = "string"
                     /\ pr.body.destination = args[c].destinationBranch.s
             /\ args[c].destinationBranch = Str("main")
                  => "destination" \in DOMAIN pr.body

C7_Witness ==
  /\ method["c1"] = "createPullRequest"
  /\ Len(RequestsOf("c1")) = 3
  /\ responses["c1"][1].user.uuid = "ME"
  /\ [i \in 1..Len(responses["c1"][2].values) |->
        responses["c1"][2].values[i].user.uuid] = <<"A", "B", "ME">>
  /\ [i \in 1..Len(requests[3].body.reviewers) |->
        requests[3].body.reviewers[i].uuid] = <<"A", "B">>
  /\ args["c1"].destinationBranch = Undefined
  /\ "destination" \notin DOMAIN requests[3].body

\* The characters after the last '/' of s (all of s if it has none).
AfterLastSlash(s) ==
  LET slashes == {i \in 1..Len(s) : s[i] = "/"}
  IN  IF slashes = {} THEN s
      ELSE SubSeq(s, (CHOOSE i \in slashes : \A j \in slashes : j <= i) + 1,
                  Len(s))

\* A Location header from which no commit hash can be read.
Unparsable(s) == s = <<>> \/ Last(s) = "/"

\* C8 as stated: commitFile and removeFile resolve to the last segment of
\* the Location header, and to `<unknown>` whenever the header is absent or
\* unparsable (empty, or ending in '/').
C8_HashOrUnknown ==
  \A c \in Callers :
    (method[c] \in SrcMethods /\ Done(c) /\ responses[c][1].ok)
      => LET location == responses[c][1].location
         IN  result[c] =
               IF location = Undefined \/ Unparsable(location.s)
               THEN Resolved(Unknown)
               ELSE Resolved(AfterLastSlash(location.s))

\* C8, amended: commitFile and removeFile resolve to the last
\* '/'-separated segment of the response's Location header, which is the
\* empty string when the header is empty or ends in '/'; they resolve to
\* `<unknown>` only when the header is absent.
C8_HashOrUnknownIfAbsent ==
  \A c \in Callers :
    (method[c] \in SrcMethods /\ Done(c) /\ responses[c][1].ok)
      => LET location == responses[c][1].location
         IN  /\ result[c] =
                  IF location = Undefined THEN Resolved(Unknown)
                  ELSE Resolved(AfterLastSlash(location.s))
             /\ (location # Undefined /\ Unparsable(location.s))
                  => result[c] = Resolved(<<>>)

C8_Witness ==
  /\ method["c1"] = "commitFile"
  /\ Done("c1")
  /\ responses["c1"][1].ok
  /\ responses["c1"][1].location = Str(<<"a", "/", "a", "1">>)
  /\ result["c1"] = Resolved(<<"a", "1">>)

\* Two callers set the same key, and both listings showed the same page.
Racing(c, d) ==
  /\ c # d
  /\ method[c] = "setRepoVariable"
  /\ method[d] = "setRepoVariable"
  /\ responses[c] # <<>>
  /\ responses[d] # <<>>
  /\ args[c].varName = args[d].varName
  /\ responses[c][1].ok
  /\ responses[d][1].ok
  /\ responses[c][1].values = responses[d][1].values

BothResolved(c, d) ==
  /\ Done(c)
  /\ Done(d)
  /\ result[c].state = "resolved"
  /\ result[d].state = "resolved"

\* C10: setRepoVariable is not atomic.  Two callers that set the same key
\* and were shown the same page of variables each write what that page
\* calls for, whatever the other has written since: with the key absent
\* from the page both POST it, and if both calls resolve the repository
\* holds the key twice; with the key on the page both PUT to its uuid, and
\* if both calls resolve the value one of them wrote is not in the
\* repository.
C10_NotAtomic ==
  \A c, d \in Callers :
    Racing(c, d)
      => LET wc == RequestsOf(c)[2]
             wd == RequestsOf(d)[2]
             page == responses[c][1].values
             key == args[c].varName
         IN  /\ Len(RequestsOf(c)) = 2
             /\ Len(RequestsOf(d)) = 2
             /\ wc.verb = wd.verb
             /\ wc.uuid = wd.uuid
             /\ wc.body.key = key
             /\ wd.body.key = key
             /\ IF HasKey(page, key)
                THEN /\ wc.verb = "PUT"
                     /\ wc.uuid = FindFrom(page, key, 1).uuid
                     /\ BothResolved(c, d)
                          => \E lost \in {c, d} :
                               /\ result[lost].value.value = VarValue(lost)
                               /\ \A i \in 1..Len(store) :
                                    store[i].value # VarValue(lost)
                ELSE /\ wc.verb = "POST"
                     /\ BothResolved(c, d)
                          => Cardinality({i \in 1..Len(store) :
                                            store[i].key = key}) >= 2

\* Lost update: both callers listed X, both PUT to its uuid, both calls
\* resolved, and the value c1 wrote is gone.
C10_Witness ==
  /\ Racing("c1", "c2")
  /\ args["c1"].varName = "X"
  /\ requests[3].verb = "PUT"
  /\ requests[4].verb = "PUT"
  /\ requests[3].uuid = requests[4].uuid
  /\ BothResolved("c1", "c2")
  /\ result["c1"].value.value = "v1"
  /\ \A i \in 1..Len(store) : store[i].value # "v1"
  /\ \E i \in 1..Len(store) : store[i].key = "X" /\ store[i].value = "v2"

\* Duplicate create: both callers listed no X and both POST it; the second
\* POST is refused.
C10_WitnessDuplicateCreate ==
  /\ Racing("c1", "c2")
  /\ args["c1"].varName = "X"
  /\ store # <<>>
  /\ ~HasKey(responses["c1"][1].values, "X")
  /\ requests[3].verb = "POST"
  /\ requests[4].verb = "POST"
  /\ Done("c1")
  /\ Done("c2")
  /\ result["c1"].state = "resolved"
  /\ result["c2"] = Rejected(HTTPError(409))

Sequential == PaginatedMethods \cup VariableMethods \cup {"createPullRequest"}

Verbs(reqs) == [i \in 1..Len(reqs) |-> reqs[i].verb]
Paths(reqs) == [i \in 1..Len(reqs) |-> reqs[i].path]

IsPrefix(s, t) == Len(s) <= Len(t) /\ s = SubSeq(t, 1, Len(s))

\* C11: a call of a paginated or composite method has at most one request
\* in flight, one exactly while it is suspended, and has received a
\* successful response to every request but its last: no request is issued
\* before the one before it was answered.  createPullRequest asks for the
\* user, then for the effective default reviewers, then posts the pull
\* request; setRepoVariable and deleteRepoVariable issue their write after
\* the listing GET, and after nothing else.
C11_Sequential ==
  \A c \in Callers :
    method[c] \in Sequential
      => LET reqs == RequestsOf(c)
         IN  /\ InFlight(c) \in {0, 1}
             /\ InFlight(c) = 1 <=> pc[c] = "await"
             /\ \A k \in 1..(Len(reqs) - 1) :
                  k <= Len(responses[c]) /\ responses[c][k].ok
             /\ method[c] = "createPullRequest"
                  => /\ IsPrefix(Verbs(reqs), <<"GET", "GET", "POST">>)
                     /\ IsPrefix(Paths(reqs),
                                 <<"user", ReviewersPath, PullRequestsPath>>)
             /\ method[c] \in VariableMethods
                  => /\ Len(reqs) <= 2
                     /\ Len(reqs) >= 1 =>
                          reqs[1] = Request(c, "GET", VariablesPath,
                                            Undefined, 0, NoBody)
                     /\ Len(reqs) = 2 =>
                          /\ reqs[2].verb \in {"POST", "PUT", "DELETE"}
                          /\ responses[c] # <<>>
                          /\ responses[c][1].ok

\* createPullRequest is suspended on its POST, with the user and the
\* reviewers answered.
C11_Witness ==
  /\ method["c1"] = "createPullRequest"
  /\ pc["c1"] = "await"
  /\ Verbs(requests) = <<"GET", "GET", "POST">>
  /\ Paths(requests) = <<"user", ReviewersPath, PullRequestsPath>>
  /\ Len(responses["c1"]) = 2
  /\ InFlight("c1") = 1

\* Caller c has been served a page without `next`.
ServedLastPage(c) ==
  /\ method[c] \in PaginatedMethods
  /\ \E k \in 1..Len(responses[c]) :
       responses[c][k].ok /\ ~responses[c][k].next

\* Once the k-th response of a paginated call has come without `next`, the
\* call has issued k requests and issues no other, whatever page number
\* the responses report.
NoRequestAfterLastPage ==
  \A c \in Callers :
    \A k \in 1..Len(responses[c]) :
      (/\ method[c] \in PaginatedMethods
       /\ responses[c][k].ok
       /\ ~responses[c][k].next)
        => /\ Len(RequestsOf(c)) = k
           /\ Len(responses[c]) = k
           /\ pc[c] \in {"resume", "done"}
           /\ result[c].state = "resolved"

\* C12: aggregation terminates.  A paginated call never has more requests
\* than one per response up to and including the first response without
\* `next`, whatever `page` the responses report, and once it has been served
\* that response it eventually resolves.
C12_Terminates ==
  /\ []NoRequestAfterLastPage
  /\ \A c \in Callers :
       ServedLastPage(c) ~> (Done(c) /\ result[c].state = "resolved")

\* Three pages whose reported page numbers are missing or wrong; the call
\* has resolved after three requests, all without a page parameter.
C12_Witness ==
  /\ method["c1"] = "codeSearch"
  /\ Done("c1")
  /\ args["c1"].requestPage = Undefined
  /\ Len(responses["c1"]) = 3
  /\ responses["c1"][1].page = Undefined
  /\ responses["c1"][2].page = Num(-1)
  /\ responses["c1"][3].page = Num(0)
  /\ \A k \in 1..3 : requests[k].page = Undefined
  /\ Len(requests) = 3
  /\ result["c1"] = Resolved(<<"a", "b", "a">>)

====
